---- MODULE Spec2Model ----
(***************************************************************************)
(* Model of country-boundaries (src/src/lib.rs, src/src/cell/multipolygon.rs). *)
(*                                                                         *)
(* Coordinates are whole degrees.  For whole-degree inputs and the raster  *)
(* sizes used here every f64 expression of the source is computed exactly  *)
(* (all intermediate values are integers far below 2^53, and a quotient    *)
(* that is not an integer is at least 1/360 away from one), so floor/ceil  *)
(* of the f64 value equals floor/ceil of the rational value modelled here. *)
(***************************************************************************)
EXTENDS Integers, Sequences, FiniteSets

VARIABLES
    raster,          \* CountryBoundaries.raster: sequence of cells, row-major
    raster_width,    \* CountryBoundaries.raster_width
    geometry_sizes,  \* CountryBoundaries.geometry_sizes: id -> size
    op,              \* the public operation called on the loaded data
    pc,              \* "idle", "loop" (inside a for loop over cells()), "done"
    position,        \* LatLon argument of a point query
    query,           \* id / set of ids argument of is_in / is_in_any
    bounds,          \* BoundingBox argument of a box query
    located,         \* (cell_x, cell_y, point) computed by cell_and_local_point
    listed,          \* what cell.get_ids returned inside ids(), before sorting
    it,              \* state captured by the closure returned by cells()
    running_ids,     \* local `ids` of containing_ids / intersecting_ids
    first_cell,      \* local `first_cell` of containing_ids
    visited,         \* the cells the for loop has received so far, in order
    calls,           \* how many times cells() was called for the box so far
    result,          \* value returned by the operation
    panic,           \* TRUE when the operation aborted on an out-of-range index
    mp,              \* Multipolygon receiver of covers
    pt,              \* Point argument of covers
    rect,            \* the rectangle the single outer ring of mp was built from
    covers_result    \* value returned by covers

vars == <<raster, raster_width, geometry_sizes, op, pc, position, query, bounds,
          located, listed, it, running_ids, first_cell, visited, calls, result, panic,
          mp, pt, rect, covers_result>>

gridVars == <<raster, raster_width, geometry_sizes>>
pointVars == <<position, query, located, listed>>
boxVars == <<bounds, it, running_ids, first_cell, visited>>
polyVars == <<mp, pt, rect, covers_result>>

(***************************************************************************)
(* Bounds of the model                                                     *)
(***************************************************************************)
MaxWidth == 3
MaxHeight == 2
MaxCoord == 3
MaxCalls == 2

None == [some |-> FALSE]
NoPosition == [latitude |-> 0, longitude |-> 0]
NoBounds == [min_latitude |-> 0, min_longitude |-> 0, max_latitude |-> 0, max_longitude |-> 0]
NoLocated == [cell_x |-> 0, cell_y |-> 0, point |-> [x |-> 0, y |-> 0]]
NoIter == [min_x |-> 0, min_y |-> 0, steps_x |-> 0, steps_y |-> 0, x_step |-> 0, y_step |-> 0]
NoRect == [x0 |-> 0, y0 |-> 0, x1 |-> 0, y1 |-> 0]

Range(s) == {s[i] : i \in DOMAIN s}

(***************************************************************************)
(* cell/multipolygon.rs                                                    *)
(***************************************************************************)
is_left(p0, p1, p) ==
    (p1.x - p0.x) * (p.y - p0.y) - (p.x - p0.x) * (p1.y - p0.y)

\* One iteration of the for loop of is_point_in_polygon: the change of wn
\* for the edge v[i] -> v[j].
WindingStep_NoEqual(v, i, j, p) ==
    IF v[i].y < p.y
    THEN IF v[j].y > p.y /\ is_left(v[i], v[j], p) > 0 THEN 1 ELSE 0
    ELSE IF v[j].y <= p.y /\ is_left(v[i], v[j], p) < 0 THEN -1 ELSE 0

WindingStep(v, i, j, p) ==
    IF v[i].y <= p.y
    THEN IF v[j].y > p.y /\ is_left(v[i], v[j], p) > 0 THEN 1 ELSE 0
    ELSE IF v[j].y <= p.y /\ is_left(v[i], v[j], p) < 0 THEN -1 ELSE 0

\* wn after the iterations j .. Len(v), entered with i the previous index
\* (i starts at the last vertex, then i = j).  Indices are 1-based here.
RECURSIVE WindingFrom(_, _, _, _)
WindingFrom(v, i, j, p) ==
    IF j > Len(v) THEN 0
    ELSE WindingStep(v, i, j, p) + WindingFrom(v, j, j + 1, p)

\* let mut i = v.len() - 1, as the integer it denotes: below zero when the
\* usize subtraction overflows
start_index(v) == Len(v) - 1

\* The value returned when the subtraction does not panic: a wrapped
\* start_index is never used for indexing, because 0 .. v.len() is then empty.
is_point_in_polygon(p, v) ==
    WindingFrom(v, start_index(v) + 1, 1, p) # 0

\* covers calls is_point_in_polygon on every outer and then every inner ring
Rings(m) == Range(m.outer) \cup Range(m.inner)
SubtractOverflows(m) == \E v \in Rings(m) : start_index(v) < 0

RECURSIVE CountInside(_, _, _)
CountInside(areas, k, p) ==
    IF k > Len(areas) THEN 0
    ELSE (IF is_point_in_polygon(p, areas[k]) THEN 1 ELSE 0) + CountInside(areas, k + 1, p)

covers_AddInner(m, point) ==
    CountInside(m.outer, 1, point) + CountInside(m.inner, 1, point) > 0

covers(m, point) ==
    CountInside(m.outer, 1, point) - CountInside(m.inner, 1, point) > 0

(***************************************************************************)
(* Cell (src/src/cell/mod.rs is not part of the available sources; the     *)
(* fields are those the cell! macro of lib.rs fills, the methods follow    *)
(* section 4.3 of the specification).  An intersecting area is the pair    *)
(* <<id, multipolygon>>.                                                   *)
(***************************************************************************)
Cell_is_in(c, point, id) ==
    \/ \E i \in DOMAIN c.containing_ids : c.containing_ids[i] = id
    \/ \E i \in DOMAIN c.intersecting_areas :
          c.intersecting_areas[i][1] = id /\ covers(c.intersecting_areas[i][2], point)

Cell_is_in_any(c, point, idset) ==
    \E id \in idset : Cell_is_in(c, point, id)

RECURSIVE CoveringIds(_, _, _)
CoveringIds(areas, k, point) ==
    IF k > Len(areas) THEN <<>>
    ELSE (IF covers(areas[k][2], point) THEN <<areas[k][1]>> ELSE <<>>)
         \o CoveringIds(areas, k + 1, point)

Cell_get_ids(c, point) ==
    c.containing_ids \o CoveringIds(c.intersecting_areas, 1, point)

Cell_get_all_ids(c) ==
    Range(c.containing_ids) \cup {c.intersecting_areas[i][1] : i \in DOMAIN c.intersecting_areas}

(***************************************************************************)
(* lib.rs: coordinate mapping                                              *)
(***************************************************************************)
\* Rust's % on f64 keeps the sign of the dividend.
Rem(a, b) == IF a >= 0 THEN a % b ELSE -((-a) % b)

\* `as usize` / `as u16` on an f64 saturate.
AsUsize(v) == IF v < 0 THEN 0 ELSE v
AsU16(v) == IF v < 0 THEN 0 ELSE IF v > 65535 THEN 65535 ELSE v
SaturatingSub(a, b) == IF a < b THEN 0 ELSE a - b
Min(a, b) == IF a < b THEN a ELSE b
\* floor and ceil of the quotient a / b, b > 0
FloorDiv(a, b) == a \div b
CeilDiv(a, b) == -((-a) \div b)

normalize_Greater(value, start_at, base) ==
    LET v == Rem(value, base)
    IN  IF v < start_at THEN v + base
        ELSE IF v > start_at + base THEN v - base
        ELSE v

normalize(value, start_at, base) ==
    LET v == Rem(value, base)
    IN  IF v < start_at THEN v + base
        ELSE IF v >= start_at + base THEN v - base
        ELSE v

raster_height == Len(raster) \div raster_width

longitude_to_cell_x_Ceil(longitude) ==
    Min(SaturatingSub(raster_width, 1),
        AsUsize(CeilDiv(raster_width * (180 + longitude), 360)))

longitude_to_cell_x(longitude) ==
    Min(SaturatingSub(raster_width, 1),
        AsUsize(FloorDiv(raster_width * (180 + longitude), 360)))

\* `- 1` in place of saturating_sub(1), computed without wrapping
latitude_to_cell_y_PlainSub(latitude) ==
    AsUsize(CeilDiv(raster_height * (90 - latitude), 180)) - 1

latitude_to_cell_y_Floor(latitude) ==
    Min(SaturatingSub(raster_height, 1),
        AsUsize(FloorDiv(raster_height * (90 - latitude), 180)))

latitude_to_cell_y(latitude) ==
    SaturatingSub(AsUsize(CeilDiv(raster_height * (90 - latitude), 180)), 1)

\* (num * 0xffff / den).floor() as u16 for den > 0: the cast saturates, so
\* the product is formed only where the quotient is below 0xffff (this keeps
\* every intermediate value of the model small).
FloorAsU16(num, den) ==
    IF num <= 0 THEN 0
    ELSE IF num >= den THEN 65535
    ELSE AsU16(FloorDiv(num * 65535, den))

\* (longitude - cell_longitude) * 0xffff * 360.0 / raster_width with
\* cell_longitude = -180.0 + 360.0 * cell_x / raster_width, as one fraction
longitude_to_local_x(cell_x, longitude) ==
    FloorAsU16(((longitude + 180) * raster_width - 360 * cell_x) * 360,
               raster_width * raster_width)

\* (latitude - cell_latitude) * 0xffff * 180.0 / raster_height with
\* cell_latitude = 90.0 - 180.0 * (cell_y + 1) / raster_height, as one fraction
latitude_to_local_y(cell_y, latitude) ==
    FloorAsU16(((latitude - 90) * raster_height + 180 * (cell_y + 1)) * 180,
               raster_height * raster_height)

\* index of cell (x, y) in the raster, 0-based as in the source
CellIndex(x, y) == y * raster_width + x
InRaster(x, y) == CellIndex(x, y) >= 0 /\ CellIndex(x, y) < Len(raster)
cell(x, y) == raster[CellIndex(x, y) + 1]

cell_and_local_point(pos) ==
    LET normalized_longitude == normalize(pos.longitude, -180, 360)
        cell_x == longitude_to_cell_x(normalized_longitude)
        cell_y == latitude_to_cell_y(pos.latitude)
    IN  [cell_x |-> cell_x,
         cell_y |-> cell_y,
         point |-> [x |-> longitude_to_local_x(cell_x, normalized_longitude),
                    y |-> latitude_to_local_y(cell_y, pos.latitude)]]

(***************************************************************************)
(* lib.rs: point queries                                                   *)
(***************************************************************************)
is_in(pos, id) ==
    LET l == cell_and_local_point(pos)
    IN  Cell_is_in(cell(l.cell_x, l.cell_y), l.point, id)

is_in_any(pos, idset) ==
    LET l == cell_and_local_point(pos)
    IN  Cell_is_in_any(cell(l.cell_x, l.cell_y), l.point, idset)

\* the key sort_by compares: the size of the id, 0.0 when the table has none
SizeOf(id) == IF id \in DOMAIN geometry_sizes THEN geometry_sizes[id] ELSE 0

\* sort_by is a stable sort: insert each element behind the elements that
\* do not compare greater.
RECURSIVE InsertSorted(_, _)
InsertSorted(s, e) ==
    IF s = <<>> THEN <<e>>
    ELSE IF SizeOf(s[Len(s)]) <= SizeOf(e) THEN Append(s, e)
    ELSE Append(InsertSorted(SubSeq(s, 1, Len(s) - 1), e), s[Len(s)])

RECURSIVE SortFrom(_, _, _)
SortFrom(s, k, acc) ==
    IF k > Len(s) THEN acc ELSE SortFrom(s, k + 1, InsertSorted(acc, s[k]))

\* an unstable variant: an element goes before the elements of equal size
RECURSIVE InsertSortedBefore(_, _)
InsertSortedBefore(s, e) ==
    IF s = <<>> THEN <<e>>
    ELSE IF SizeOf(s[Len(s)]) < SizeOf(e) THEN Append(s, e)
    ELSE Append(InsertSortedBefore(SubSeq(s, 1, Len(s) - 1), e), s[Len(s)])

RECURSIVE SortFromUnstable(_, _, _)
SortFromUnstable(s, k, acc) ==
    IF k > Len(s) THEN acc ELSE SortFromUnstable(s, k + 1, InsertSortedBefore(acc, s[k]))

sort_by_size_Unstable(s) == SortFromUnstable(s, 1, <<>>)

sort_by_size(s) == SortFrom(s, 1, <<>>)

ids(pos) ==
    LET l == cell_and_local_point(pos)
    IN  sort_by_size(Cell_get_ids(cell(l.cell_x, l.cell_y), l.point))

(***************************************************************************)
(* lib.rs: cells(), the iterator over the cells of a bounding box          *)
(***************************************************************************)
cells(b) ==
    LET normalized_min_longitude == normalize(b.min_longitude, -180, 360)
        normalized_max_longitude == normalize(b.max_longitude, -180, 360)
        min_x == longitude_to_cell_x(normalized_min_longitude)
        max_y == latitude_to_cell_y(b.min_latitude)
        max_x == longitude_to_cell_x(normalized_max_longitude)
        min_y == latitude_to_cell_y(b.max_latitude)
    IN  [min_x |-> min_x,
         min_y |-> min_y,
         steps_x |-> IF min_x > max_x THEN raster_width - min_x + max_x ELSE max_x - min_x,
         steps_y |-> max_y - min_y,
         x_step |-> 0,
         y_step |-> 0]

\* the value one call of the closure yields
cells_item(i) ==
    IF i.x_step <= i.steps_x /\ i.y_step <= i.steps_y
    THEN [some |-> TRUE, x |-> (i.min_x + i.x_step) % raster_width, y |-> i.min_y + i.y_step]
    ELSE None

\* x_step counted up first, y_step on its overflow
cells_advance_XFirst(i) ==
    IF i.x_step < i.steps_x
    THEN [i EXCEPT !.x_step = i.x_step + 1]
    ELSE [i EXCEPT !.x_step = 0, !.y_step = i.y_step + 1]

\* the counters after one call of the closure
cells_advance(i) ==
    IF i.y_step < i.steps_y
    THEN [i EXCEPT !.y_step = i.y_step + 1]
    ELSE [i EXCEPT !.y_step = 0, !.x_step = i.x_step + 1]

\* body of the for loop of containing_ids
containing_ids_body_NoSeed(idset, first, c) ==
    {id \in idset : \E k \in DOMAIN c.containing_ids : c.containing_ids[k] = id}

containing_ids_body(idset, first, c) ==
    IF first
    THEN idset \cup Range(c.containing_ids)
    ELSE {id \in idset : \E k \in DOMAIN c.containing_ids : c.containing_ids[k] = id}

\* body of the for loop of intersecting_ids
intersecting_ids_body_Retain(idset, c) ==
    {id \in idset : id \in Cell_get_all_ids(c)}

intersecting_ids_body(idset, c) ==
    idset \cup Cell_get_all_ids(c)

(***************************************************************************)
(* The rasters, positions and boxes the model draws its inputs from        *)
(***************************************************************************)
Names == <<"A", "B", "C", "D", "E", "F", "G", "H", "I", "J", "K", "L">>

Pt(x, y) == [x |-> x, y |-> y]

\* The ring of the rectangle (x0,y0)-(x1,y1): in the vertex order of the
\* unit tests (x0,y0),(x0,y1),(x1,y1),(x1,y0) or reversed, starting at the
\* corner number `start` (0..3) of that order.
RectRing(x0, y0, x1, y1, reversed, start) ==
    LET fwd == <<Pt(x0, y0), Pt(x0, y1), Pt(x1, y1), Pt(x1, y0)>>
        base == IF reversed THEN [i \in 1..4 |-> fwd[5 - i]] ELSE fwd
    IN  [i \in 1..4 |-> base[((i - 1 + start) % 4) + 1]]

NoMultipolygon == [outer |-> <<>>, inner |-> <<>>]
\* Areas in the local coordinates of a cell.  is_left is computed in i64 in
\* the source; the vertices stay below 2^14 so that its products (one factor
\* can be as large as 0xffff) and their difference stay below 2^31 here.
CornerArea == [outer |-> <<RectRing(0, 0, 16000, 16000, FALSE, 0)>>, inner |-> <<>>]
HoledCornerArea == [outer |-> <<RectRing(0, 0, 16000, 16000, FALSE, 0)>>,
                    inner |-> <<RectRing(0, 0, 100, 100, FALSE, 0)>>]

MkCell(containing) == [containing_ids |-> containing, intersecting_areas |-> <<>>]

\* get_containing_ids_in_bbox_is_merged_correctly
MergedCells == << MkCell(<<"A", "B">>), MkCell(<<"B", "A">>),
                  MkCell(<<"C", "B", "A">>), MkCell(<<"D", "A">>) >>
\* get_containing_ids_in_bbox_returns_correct_result_when_one_cell_is_empty,
\* the empty cell not always the first one visited
EmptyCells == << MkCell(<<"A", "B">>), MkCell(<<>>), MkCell(<<"B", "A">>), MkCell(<<"A">>) >>
\* get_containing_ids_sorted_by_size_ascending, plus ids on the border
BorderCells == << [containing_ids |-> <<"D", "B", "C", "A">>,
                   intersecting_areas |-> << <<"E", CornerArea>>, <<"F", HoledCornerArea>> >>],
                  [containing_ids |-> <<>>,
                   intersecting_areas |-> << <<"F", CornerArea>> >>] >>

\* cell number k (1-based) of a raster built after layout l
LayoutCell(l, k) ==
    CASE l = 1 -> MkCell(<<Names[k]>>)
      [] l = 2 -> MergedCells[((k - 1) % 4) + 1]
      [] l = 3 -> EmptyCells[((k - 1) % 4) + 1]
      [] OTHER -> BorderCells[((k - 1) % 2) + 1]

SizeTable(t) ==
    CASE t = 1 -> <<>>
      [] t = 2 -> [id \in {"A", "B", "C", "D"} |->
                      CASE id = "A" -> 10 [] id = "B" -> 15 [] id = "C" -> 100 [] OTHER -> 800]
      [] OTHER -> [id \in {"A", "B", "C", "E"} |-> IF id = "C" THEN 1 ELSE 5]

\* <<layout, size table>>
Configs == {<<1, 1>>, <<2, 3>>, <<3, 2>>, <<4, 2>>, <<4, 3>>}

Latitudes == {-90, -60, -45, -30, 0, 1, 30, 45, 60, 90}
Longitudes == {-180 + 30 * k : k \in 0..12} \cup {1}
Positions == [latitude : Latitudes, longitude : Longitudes]
QueryIds == {"A", "C", "F"}
QueryIdSets == {{"A", "B"}, {"E", "X"}}

BoxLatitudes == {-90, 0, 90}
BoxLongitudes == {-180, -170, -10, 10, 90, 150, 170, 180}
Boxes == {b \in [min_latitude : BoxLatitudes, min_longitude : BoxLongitudes,
                 max_latitude : BoxLatitudes, max_longitude : BoxLongitudes] :
             b.min_latitude <= b.max_latitude}

Coords == 0..MaxCoord
\* big_square, hole and small_square of the unit tests, and a triangle
NestRings == { RectRing(0, 0, 10, 10, FALSE, 0), RectRing(2, 2, 8, 8, FALSE, 0),
               RectRing(4, 4, 6, 6, FALSE, 0), <<Pt(0, 0), Pt(0, 10), Pt(10, 0)>> }
RingLists == {<<>>} \cup {<<r>> : r \in NestRings} \cup {<<r, q>> : r \in NestRings, q \in NestRings}
\* ring lists in which a ring may have no vertex
EmptyRing == <<>>
DegenerateRingLists ==
    {<<>>, <<EmptyRing>>} \cup {<<r>> : r \in NestRings}
        \cup {<<r, EmptyRing>> : r \in NestRings} \cup {<<EmptyRing, r>> : r \in NestRings}
NestPoints == {Pt(x, y) : x \in {0, 1, 3, 5, 10}, y \in {0, 1, 3, 5, 10}}

(***************************************************************************)
(* Initial states: a loaded, immutable CountryBoundaries                   *)
(***************************************************************************)
NoQuery ==
    /\ op = "none" /\ pc = "idle"
    /\ position = NoPosition /\ query = {} /\ located = NoLocated /\ listed = <<>>
    /\ bounds = NoBounds /\ it = NoIter /\ running_ids = {} /\ first_cell = TRUE
    /\ visited = <<>> /\ calls = 0 /\ result = <<>> /\ panic = FALSE
    /\ mp = NoMultipolygon /\ pt = Pt(0, 0) /\ rect = NoRect /\ covers_result = FALSE

Init ==
    /\ \E w \in 1..MaxWidth, h \in 1..MaxHeight, c \in Configs :
          /\ raster_width = w
          /\ raster = [k \in 1..(w * h) |-> LayoutCell(c[1], k)]
          /\ geometry_sizes = SizeTable(c[2])
    /\ NoQuery

InitPoly ==
    /\ raster_width = 1
    /\ raster = <<MkCell(<<"A">>)>>
    /\ geometry_sizes = <<>>
    /\ NoQuery

(***************************************************************************)
(* Point queries                                                           *)
(***************************************************************************)
ResetBox ==
    /\ bounds' = NoBounds /\ it' = NoIter /\ running_ids' = {}
    /\ first_cell' = TRUE /\ visited' = <<>>

PointQuery(name, pos, q) ==
    /\ pc = "idle"
    /\ op' = name /\ pc' = "done" /\ position' = pos /\ query' = q
    /\ located' = cell_and_local_point(pos)
    /\ panic' = ~InRaster(located'.cell_x, located'.cell_y)
    /\ ResetBox
    /\ UNCHANGED <<gridVars, polyVars, calls>>

IsIn(pos, id) ==
    /\ PointQuery("is_in", pos, {id})
    /\ listed' = <<>>
    /\ result' = IF panic' THEN <<>> ELSE is_in(pos, id)

IsInAny(pos, idset) ==
    /\ PointQuery("is_in_any", pos, idset)
    /\ listed' = <<>>
    /\ result' = IF panic' THEN <<>> ELSE is_in_any(pos, idset)

Ids(pos) ==
    /\ PointQuery("ids", pos, {})
    /\ listed' = IF panic' THEN <<>>
                 ELSE Cell_get_ids(cell(located'.cell_x, located'.cell_y), located'.point)
    /\ result' = IF panic' THEN <<>> ELSE ids(pos)

(***************************************************************************)
(* Box queries: the for loop over cells(), one iteration per step          *)
(***************************************************************************)
BoxQueryBegin(name, b) ==
    /\ pc = "idle"
    /\ op' = name /\ pc' = "loop" /\ bounds' = b /\ calls' = 1
    /\ it' = cells(b)
    /\ running_ids' = {} /\ first_cell' = TRUE /\ visited' = <<>>
    /\ result' = <<>> /\ panic' = FALSE
    /\ position' = NoPosition /\ query' = {} /\ located' = NoLocated /\ listed' = <<>>
    /\ UNCHANGED <<gridVars, polyVars>>

ContainingIdsBegin(b) == BoxQueryBegin("containing_ids", b)

IntersectingIdsBegin(b) == BoxQueryBegin("intersecting_ids", b)

\* One call of the iterator.  Some(cell): the loop body runs.  None: the
\* loop ends and the function returns ids.
BoxQueryNext(name) ==
    /\ pc = "loop" /\ op = name
    /\ it' = cells_advance(it)
    /\ LET item == cells_item(it)
       IN  IF ~item.some
           THEN /\ pc' = "done" /\ result' = running_ids
                /\ UNCHANGED <<running_ids, first_cell, visited, panic>>
           ELSE IF ~InRaster(item.x, item.y)
           THEN /\ pc' = "done" /\ panic' = TRUE
                /\ UNCHANGED <<running_ids, first_cell, visited, result>>
           ELSE /\ running_ids' =
                      IF name = "containing_ids"
                      THEN containing_ids_body(running_ids, first_cell, cell(item.x, item.y))
                      ELSE intersecting_ids_body(running_ids, cell(item.x, item.y))
                /\ first_cell' = FALSE
                /\ visited' = Append(visited, <<item.x, item.y>>)
                /\ UNCHANGED <<pc, result, panic>>
    /\ UNCHANGED <<op, bounds, calls, gridVars, pointVars, polyVars>>

ContainingIdsNext == BoxQueryNext("containing_ids")

IntersectingIdsNext == BoxQueryNext("intersecting_ids")

\* The same query made once more on the same data and box: cells(&bounds)
\* builds a new closure, the locals of the function are new.
BoxQueryAgain(name) ==
    /\ pc = "done" /\ op = name /\ ~panic /\ calls < MaxCalls
    /\ pc' = "loop" /\ calls' = calls + 1
    /\ it' = cells(bounds)
    /\ running_ids' = {} /\ first_cell' = TRUE /\ visited' = <<>>
    /\ result' = <<>>
    /\ UNCHANGED <<op, bounds, panic, gridVars, pointVars, polyVars>>

ContainingIdsAgain == BoxQueryAgain("containing_ids")

IntersectingIdsAgain == BoxQueryAgain("intersecting_ids")

Next ==
    \/ pc = "idle" /\ \E pos \in Positions, id \in QueryIds : IsIn(pos, id)
    \/ pc = "idle" /\ \E pos \in Positions, idset \in QueryIdSets : IsInAny(pos, idset)
    \/ pc = "idle" /\ \E pos \in Positions : Ids(pos)
    \/ pc = "idle" /\ \E b \in Boxes : ContainingIdsBegin(b)
    \/ pc = "idle" /\ \E b \in Boxes : IntersectingIdsBegin(b)
    \/ ContainingIdsNext
    \/ IntersectingIdsNext
    \/ ContainingIdsAgain
    \/ IntersectingIdsAgain

Spec == Init /\ [][Next]_vars

(***************************************************************************)
(* Multipolygon.covers on its own                                          *)
(***************************************************************************)
CoversCall(m, p, r) ==
    /\ pc' = "done" /\ op' = "covers"
    /\ mp' = m /\ pt' = p /\ rect' = r
    /\ UNCHANGED <<gridVars, pointVars, boxVars, calls, result>>
    \* with overflow checks (debug profile) the subtraction v.len() - 1 panics
    \* on a ring without vertices, without them (release profile) it wraps
    /\ \E overflow_checks \in BOOLEAN :
          /\ panic' = (overflow_checks /\ SubtractOverflows(m))
          /\ covers_result' = IF panic' THEN FALSE ELSE covers(m, p)

\* covers of a multipolygon whose only ring is an axis-aligned rectangle
CoversRectangle ==
    /\ pc = "idle"
    /\ \E x0 \in Coords, y0 \in Coords, x1 \in Coords, y1 \in Coords,
          reversed \in BOOLEAN, start \in 0..3, px \in Coords, py \in Coords :
           /\ x0 < x1 /\ y0 < y1
           /\ CoversCall([outer |-> <<RectRing(x0, y0, x1, y1, reversed, start)>>, inner |-> <<>>],
                         Pt(px, py),
                         [x0 |-> x0, y0 |-> y0, x1 |-> x1, y1 |-> y1])

\* covers of a multipolygon of up to two outer and two inner rings
CoversNested ==
    /\ pc = "idle"
    /\ \E outer \in RingLists, inner \in RingLists, p \in NestPoints :
          CoversCall([outer |-> outer, inner |-> inner], p, NoRect)

\* covers of a multipolygon that has a ring without vertices
CoversDegenerate ==
    /\ pc = "idle"
    /\ \E outer \in DegenerateRingLists, inner \in DegenerateRingLists, p \in NestPoints :
          /\ EmptyRing \in Range(outer) \cup Range(inner)
          /\ CoversCall([outer |-> outer, inner |-> inner], p, NoRect)

NextPoly == CoversRectangle \/ CoversNested \/ CoversDegenerate

SpecPoly == InitPoly /\ [][NextPoly]_vars

(***************************************************************************)
(* containing_ids / intersecting_ids as functions of the box: the same     *)
(* loop, run to its end                                                    *)
(***************************************************************************)
RECURSIVE ContainingLoop(_, _, _)
ContainingLoop(i, idset, first) ==
    LET item == cells_item(i)
    IN  IF ~item.some \/ ~InRaster(item.x, item.y) THEN idset
        ELSE ContainingLoop(cells_advance(i),
                            containing_ids_body(idset, first, cell(item.x, item.y)), FALSE)

containing_ids(b) == ContainingLoop(cells(b), {}, TRUE)

RECURSIVE IntersectingLoop(_, _)
IntersectingLoop(i, idset) ==
    LET item == cells_item(i)
    IN  IF ~item.some \/ ~InRaster(item.x, item.y) THEN idset
        ELSE IntersectingLoop(cells_advance(i),
                              intersecting_ids_body(idset, cell(item.x, item.y)))

intersecting_ids(b) == IntersectingLoop(cells(b), {})

(***************************************************************************)
(* Properties                                                              *)
(***************************************************************************)
PointQueryDone == op \in {"is_in", "is_in_any", "ids"} /\ pc = "done"
BoxQueryDone == op \in {"containing_ids", "intersecting_ids"} /\ pc = "done"

\* the 2x2 raster A B / C D of delegates_to_correct_cell_at_edges
World2x2 ==
    /\ raster_width = 2
    /\ raster = <<MkCell(<<"A">>), MkCell(<<"B">>), MkCell(<<"C">>), MkCell(<<"D">>)>>

At(lat, lon) == position = [latitude |-> lat, longitude |-> lon]

\* C1: for every raster (width >= 1, length a multiple of width) and every
\* latitude in [-90,90] and longitude in [-180,180], the poles and the
\* antimeridian included, longitude_to_cell_x gives a column in 0..width-1
\* and latitude_to_cell_y a row in 0..height-1, so the raster access of
\* is_in, is_in_any and ids is never out of range.
C1_CellIndexInRange ==
    PointQueryDone =>
        /\ ~panic
        /\ located.cell_x \in 0..(raster_width - 1)
        /\ located.cell_y \in 0..(raster_height - 1)
        /\ CellIndex(located.cell_x, located.cell_y) \in 0..(Len(raster) - 1)
        /\ longitude_to_cell_x(position.longitude) \in 0..(raster_width - 1)
        /\ latitude_to_cell_y(position.latitude) \in 0..(raster_height - 1)

C1_Witness ==
    /\ PointQueryDone /\ ~panic
    /\ At(90, 180)
    /\ raster_width > 1 /\ raster_height > 1
    /\ located.cell_x = 0 /\ located.cell_y = 0

\* C2: a position on the west or south edge of a cell resolves to that cell,
\* a position on its east or north edge to the neighbouring cell (east of
\* the last column: column 0, across the antimeridian), latitude 90 to row 0
\* and latitude -90 to row height-1; in the 2x2 raster A B / C D, (0,-180)
\* and (0,180) resolve to A, (0,0) to B, (-90,-180) to C and (-45,0) to D.
C2_EdgeRule ==
    (PointQueryDone /\ ~panic) =>
        LET w == raster_width
            h == raster_height
            lon == position.longitude
            lat == position.latitude
        IN  /\ \A c \in 0..(w - 1) :
                   \* west edge of column c
                   /\ (180 + lon) * w = 360 * c => located.cell_x = c
                   \* east edge of column c
                   /\ (180 + lon) * w = 360 * (c + 1) => located.cell_x = (c + 1) % w
            /\ \A r \in 0..(h - 1) :
                   \* south edge of row r
                   /\ (90 - lat) * h = 180 * (r + 1) => located.cell_y = r
                   \* north edge of row r: the row above, at the pole row 0
                   /\ (90 - lat) * h = 180 * r =>
                          located.cell_y = IF r = 0 THEN 0 ELSE r - 1
            /\ lat = 90 => located.cell_y = 0
            /\ lat = -90 => located.cell_y = h - 1
            /\ (World2x2 /\ op = "ids") =>
                   /\ (At(0, -180) \/ At(0, 180)) => result = <<"A">>
                   /\ At(0, 0) => result = <<"B">>
                   /\ At(-90, -180) => result = <<"C">>
                   /\ At(-45, 0) => result = <<"D">>

C2_Witness ==
    /\ World2x2 /\ op = "ids" /\ pc = "done" /\ ~panic
    /\ At(0, 180)
    /\ result = <<"A">>

\* the rows of a box, and the columns whose extent [west, east) meets
\* [min_longitude, 180] or [-180, max_longitude]
BoxRows(b) == latitude_to_cell_y(b.max_latitude)..latitude_to_cell_y(b.min_latitude)
WrappedColumns(b) ==
    {c \in 0..(raster_width - 1) :
        \/ 360 * (c + 1) > (b.min_longitude + 180) * raster_width
        \/ 360 * c <= (b.max_longitude + 180) * raster_width}

\* C3: for every box with min_longitude > max_longitude, containing_ids and
\* intersecting_ids visit, within the rows of the box, every cell whose
\* longitude extent overlaps [min_longitude, 180] or [-180, max_longitude],
\* and no column outside that wrapped range.
C3_WrappedBoxVisitsWrappedRange ==
    (BoxQueryDone /\ ~panic /\ bounds.min_longitude > bounds.max_longitude) =>
        Range(visited) = {<<x, y>> : x \in WrappedColumns(bounds), y \in BoxRows(bounds)}

\* C4: in the 2x2 raster of the single-id cells A, B, C, D, the box spanning
\* the whole world (latitude -90..90, longitude -180..180) yields
\* intersecting_ids = {A, B, C, D} and containing_ids = {}.
C4_WholeWorldBox ==
    ( /\ BoxQueryDone /\ ~panic /\ World2x2
      /\ bounds = [min_latitude |-> -90, min_longitude |-> -180,
                   max_latitude |-> 90, max_longitude |-> 180] ) =>
        /\ op = "intersecting_ids" => result = {"A", "B", "C", "D"}
        /\ op = "containing_ids" => result = {}

ContainingOf(xy) == Range(cell(xy[1], xy[2]).containing_ids)

\* C5: containing_ids(bounds) is exactly the intersection of the
\* containing_ids of all cells visited: seeded from the first visited cell,
\* intersected with every later one, so once a visited cell (first or later)
\* has no containing id the set is empty and stays empty.
C5_ContainingIsIntersection ==
    (op = "containing_ids" /\ ~panic /\ visited # <<>>) =>
        /\ running_ids = {id \in ContainingOf(visited[1]) :
                             \A k \in DOMAIN visited : id \in ContainingOf(visited[k])}
        /\ (\E k \in DOMAIN visited : ContainingOf(visited[k]) = {}) => running_ids = {}
        /\ pc = "done" => result = running_ids

C5_Witness ==
    /\ op = "containing_ids" /\ pc = "done" /\ ~panic
    /\ Len(visited) >= 3
    /\ ContainingOf(visited[1]) # {}
    /\ ContainingOf(visited[2]) = {}
    /\ ContainingOf(visited[3]) # {}
    /\ result = {}

\* position in the sorted output of element i of s: behind every element of
\* smaller size and every earlier element of equal size
StableRank(s, i) ==
    1 + Cardinality({j \in DOMAIN s :
                        \/ SizeOf(s[j]) < SizeOf(s[i])
                        \/ SizeOf(s[j]) = SizeOf(s[i]) /\ j < i})

\* C6: ids(position) returns the ids get_ids yields for the position's cell
\* and local point, ascending by size (an id absent from the size table
\* counts 0.0), ids of equal size in the order the cell listed them; a cell
\* listing D, B, C, A with sizes D:800 B:15 C:100 A:10 yields [A, B, C, D].
C6_IdsSortedStable ==
    (op = "ids" /\ pc = "done" /\ ~panic) =>
        /\ listed = Cell_get_ids(cell(located.cell_x, located.cell_y), located.point)
        /\ Len(result) = Len(listed)
        /\ \A i \in DOMAIN listed : result[StableRank(listed, i)] = listed[i]
        /\ \A i, j \in DOMAIN result : i < j => SizeOf(result[i]) <= SizeOf(result[j])
        /\ (listed = <<"D", "B", "C", "A">> /\ geometry_sizes = SizeTable(2)) =>
               result = <<"A", "B", "C", "D">>

C6_Witness ==
    /\ op = "ids" /\ pc = "done" /\ ~panic
    /\ geometry_sizes = SizeTable(3)
    /\ listed = <<"D", "B", "C", "A", "E">>
    /\ result = <<"D", "C", "B", "A", "E">>

BigSquare == RectRing(0, 0, 10, 10, FALSE, 0)
Hole == RectRing(2, 2, 8, 8, FALSE, 0)
SmallSquare == RectRing(4, 4, 6, 6, FALSE, 0)

\* C7: covers(point) is true exactly when the number of outer rings
\* containing the point minus the number of inner rings containing it is
\* greater than 0: inside an outer ring and a hole nested in it is not
\* covered, additionally inside an outer ring nested in the hole is covered.
C7_CoversSignedCount ==
    (op = "covers") =>
        /\ covers_result =
              (Cardinality({i \in DOMAIN mp.outer : is_point_in_polygon(pt, mp.outer[i])})
               - Cardinality({i \in DOMAIN mp.inner : is_point_in_polygon(pt, mp.inner[i])}) > 0)
        /\ (mp = [outer |-> <<BigSquare>>, inner |-> <<Hole>>] /\ pt = Pt(5, 5)) =>
               ~covers_result
        /\ (mp = [outer |-> <<BigSquare, SmallSquare>>, inner |-> <<Hole>>] /\ pt = Pt(5, 5)) =>
               covers_result

C7_Witness ==
    /\ op = "covers"
    /\ mp = [outer |-> <<BigSquare, SmallSquare>>, inner |-> <<Hole>>]
    /\ pt = Pt(5, 5)
    /\ covers_result

\* C8: for an axis-aligned rectangular ring (x0,y0)-(x1,y1), x0 < x1,
\* y0 < y1, in either vertex orientation and from any starting corner, a
\* point is inside iff x0 <= px < x1 and y0 <= py < y1: the lower and left
\* edges are inside, the upper and right edges and the three corners other
\* than (x0,y0) are outside.
C8_RectangleHalfOpen ==
    /\ (op = "covers" /\ rect # NoRect) =>
           /\ mp.inner = <<>> /\ Len(mp.outer) = 1
           /\ is_point_in_polygon(pt, mp.outer[1]) = covers_result
           /\ covers_result = ( /\ rect.x0 <= pt.x /\ pt.x < rect.x1
                                /\ rect.y0 <= pt.y /\ pt.y < rect.y1 )
    /\ (op = "covers" /\ mp = [outer |-> <<BigSquare>>, inner |-> <<>>]) =>
           covers_result = (pt.x < 10 /\ pt.y < 10)

C8_Witness ==
    /\ op = "covers" /\ rect # NoRect
    /\ rect.x0 > 0 /\ rect.y0 > 0
    /\ mp.outer[1][1] = Pt(rect.x1, rect.y1)
    /\ mp.outer[1][2] = Pt(rect.x0, rect.y1)
    /\ pt = Pt(rect.x0, rect.y0)
    /\ covers_result

\* C9: longitude 180 and longitude -180 at the same latitude give identical
\* results for is_in, is_in_any and ids on every raster: the same cell and
\* the same local point.
C9_AntimeridianEquivalence ==
    (PointQueryDone /\ position.longitude = 180) =>
        LET west == [position EXCEPT !.longitude = -180]
            l == cell_and_local_point(west)
        IN  /\ ~panic
            /\ InRaster(l.cell_x, l.cell_y)
            /\ located = l
            /\ op = "ids" => result = ids(west)
            /\ op = "is_in" => \A id \in query : result = is_in(west, id)
            /\ op = "is_in_any" => result = is_in_any(west, query)

C9_Witness ==
    /\ op = "ids" /\ pc = "done" /\ ~panic
    /\ position.longitude = 180
    /\ raster_width > 1
    /\ result = <<"A">>

\* C10: for every raster and every box, containing_ids(box) is a subset of
\* intersecting_ids(box).
C10_ContainingSubsetOfIntersecting ==
    (BoxQueryDone /\ ~panic) =>
        /\ op = "containing_ids" => result \subseteq intersecting_ids(bounds)
        /\ op = "intersecting_ids" => containing_ids(bounds) \subseteq result

C10_Witness ==
    /\ op = "containing_ids" /\ pc = "done" /\ ~panic
    /\ Len(visited) > 1
    /\ result # {}
    /\ result # intersecting_ids(bounds)

\* number k (1-based) of the cells of the rectangle of iterator i, counted
\* column by column / row by row
ColumnMajorCell(i, k) ==
    << (i.min_x + ((k - 1) \div (i.steps_y + 1))) % raster_width,
       i.min_y + ((k - 1) % (i.steps_y + 1)) >>
RowMajorCell(i, k) ==
    << (i.min_x + ((k - 1) % (i.steps_x + 1))) % raster_width,
       i.min_y + ((k - 1) \div (i.steps_x + 1)) >>

InBoxQuery == op \in {"containing_ids", "intersecting_ids"} /\ ~panic

\* C11 as stated: the enumeration yields the cells of the (possibly wrapped)
\* column range x row range rectangle in row-major order, all cells of one
\* row, in column order from the min column, before any cell of the next
\* row; a fresh call restarts from the first cell.
C11_RowMajorOrder ==
    InBoxQuery =>
        /\ \A k \in DOMAIN visited : visited[k] = RowMajorCell(it, k)
        /\ pc = "loop" => Len(visited) = it.y_step * (it.steps_x + 1) + it.x_step
        /\ pc = "done" => Len(visited) = (it.steps_x + 1) * (it.steps_y + 1)

\* C11 amended: the enumeration yields the cells of the (possibly wrapped)
\* column range x row range rectangle in column-major order, all cells of
\* one column, in row order from the min row, before any cell of the next
\* column, the columns from the min column eastwards modulo width; every
\* call, the first or a later one, starts at the first cell and yields the
\* whole rectangle.
C11_ColumnMajorOrder ==
    InBoxQuery =>
        /\ \A k \in DOMAIN visited : visited[k] = ColumnMajorCell(it, k)
        /\ pc = "loop" => Len(visited) = it.x_step * (it.steps_y + 1) + it.y_step
        /\ pc = "done" => Len(visited) = (it.steps_x + 1) * (it.steps_y + 1)

C11_Witness ==
    /\ InBoxQuery /\ pc = "done" /\ calls = 2
    /\ it.steps_x >= 1 /\ it.steps_y >= 1
    /\ it.min_x + it.steps_x >= raster_width
    /\ visited[1] = <<it.min_x, it.min_y>>
    /\ visited[2] = <<it.min_x, it.min_y + 1>>
    /\ Len(visited) = (it.steps_x + 1) * (it.steps_y + 1)

\* floor(0xffff * offset / extent) with offset = offset_num / cells degrees
\* and extent = whole / cells degrees: the linear interpolation of an offset
\* inside a cell that is whole / cells degrees wide
Interpolated(offset_num, whole) == FloorDiv(65535 * offset_num, whole)

\* longitude - cell west edge and latitude - cell south edge, times the
\* number of columns and rows
WestOffset(l, longitude) == (longitude + 180) * raster_width - 360 * l.cell_x
SouthOffset(l, latitude) == (latitude - 90) * raster_height + 180 * (l.cell_y + 1)

\* C12: for every raster width and height and every position, the local
\* point computed for the position's cell is the linear interpolation of its
\* offset inside that cell: x = floor(65535 * (longitude - cell west edge) /
\* (360/width)) and y = floor(65535 * (latitude - cell south edge) /
\* (180/height)), both within 0..65535, so that a position halfway across any
\* cell maps to about 32767 whatever the raster size.
C12_LocalPointInterpolates ==
    (PointQueryDone /\ ~panic) =>
        /\ located.point.x =
               Interpolated(WestOffset(located, normalize(position.longitude, -180, 360)), 360)
        /\ located.point.y =
               Interpolated(SouthOffset(located, position.latitude), 180)
        /\ located.point.x \in 0..65535
        /\ located.point.y \in 0..65535

\* C13: covers(point) completes with a boolean and no arithmetic underflow or
\* out-of-range vertex access for every multipolygon, including one that has
\* an outer or inner ring with zero vertices (such a ring contains no
\* point); the ring test's starting index len-1 is never computed below zero.
C13_CoversNeverUnderflows ==
    (op = "covers") =>
        /\ ~panic
        /\ covers_result \in BOOLEAN
        /\ \A v \in Rings(mp) : start_index(v) >= 0
        /\ \A v \in Rings(mp) : Len(v) = 0 => ~is_point_in_polygon(pt, v)

====
